---------------------------- MODULE Spec2Model ----------------------------
(***************************************************************************)
(* A model of oxidiff (src/src/main.rs): the chunker, the normalizer, the  *)
(* differ, the patch container codec and the patch applicator.             *)
(*                                                                         *)
(* Representation.  A byte is a number in 0..255 and a file, a String and  *)
(* a container are sequences of bytes (a Rust String is its UTF-8 bytes).  *)
(* An i32 is an integer in I32_MIN..I32_MAX.  An i64 is a record of two    *)
(* 32-bit words [hi, lo], standing for hi * 2^32 + (lo taken unsigned):    *)
(* the model checker's integers are 32 bits wide.  An Instruction's        *)
(* address is an i64 that the chunker keeps below the length of the file,  *)
(* so it is held as a plain integer.                                       *)
(***************************************************************************)
EXTENDS Integers, Sequences, FiniteSets

VARIABLES
    overflow_checks,   \* build profile: does i32 `+=` panic on overflow (dev) or wrap (release)
    old_file,          \* bytes of <oldFilePath>
    new_file,          \* bytes of <newFilePath>
    patch,             \* bytes of the uncompressed container file
    target,            \* bytes of <fileToUpdatePath>
    before,            \* the target's bytes when apply_streaming_patch was called
    pc,                \* position inside apply_streaming_patch
    diff,              \* apply_streaming_patch: local `diff`
    address_changes,   \* apply_streaming_patch: local `address_changes`
    idx,               \* apply_streaming_patch: loop index `i`
    result,            \* what apply_streaming_patch returned
    stream,            \* streaming_disassemble: the bytes behind the reader
    rpos,              \* streaming_disassemble: the reader's position
    address,           \* streaming_disassemble: local `address`
    instructions,      \* streaming_disassemble: local `instructions`
    dis,               \* streaming_disassemble: "reading", "ok" or "err"
    old_code,          \* normalize / generate_diff: first argument
    new_code,          \* generate_diff: second argument
    out,               \* normalize / generate_diff: what the last call returned
    container,         \* the container value handed to the serializer
    parsed             \* what the parser made of `patch`

pipeVars == <<overflow_checks, old_file, new_file, patch, target, before, pc,
              diff, address_changes, idx, result>>
chunkVars == <<stream, rpos, address, instructions, dis>>
diffVars == <<old_code, new_code, out>>
codecVars == <<container, parsed>>
vars == <<pipeVars, chunkVars, diffVars, codecVars>>

-----------------------------------------------------------------------------
(* Bounds of the model.                                                    *)

\* BUFFER_SIZE is 4 * BufferWords bytes (1024 * 1024 in the source)
BufferWords == 1
\* longest stream handed to streaming_disassemble on its own
MaxStreamLen == 5
\* longest old / new file handed to create_streaming_diff
MaxFileLen == 5
\* longest target file handed to apply_streaming_patch with a foreign container
MaxTargetLen == 5
\* most offset deltas in a container that did not come from create_streaming_diff
MaxDeltas == 2
\* most change records in a container that did not come from create_streaming_diff
MaxRecords == 1
\* longest unit sequence handed to normalize / generate_diff on their own
MaxUnits == 2

\* byte values the files are made of
FileBytes == {0, 255}
\* byte values the targets of foreign containers are made of
TargetBytes == {0, 127, 255}

Idle == "idle"

SeqsUpTo(S, n) == UNION {[1..k -> S] : k \in 0..n}

Min(a, b) == IF a < b THEN a ELSE b
Max(a, b) == IF a > b THEN a ELSE b

Take(s, n) == SubSeq(s, 1, Min(n, Len(s)))
Drop(s, n) == SubSeq(s, n + 1, Len(s))

-----------------------------------------------------------------------------
(* Program constants.                                                      *)

CHUNK == 4
BUFFER_SIZE == 4 * BufferWords
DIGEST_LEN == 32
I32_MAX == 2147483647
I32_MIN == -I32_MAX - 1


-----------------------------------------------------------------------------
(* Text.  format!("{:02X}") and format!("{:08X}") of an i64: upper-case    *)
(* hexadecimal, zero-padded to the width, never cut; a negative number is  *)
(* printed as its 64-bit two's complement, that is 16 digits.              *)

HexDigit(d) == IF d < 10 THEN 48 + d ELSE 55 + d

RECURSIVE HexDigits(_)
HexDigits(n) == IF n < 16 THEN <<HexDigit(n)>>
                ELSE HexDigits(n \div 16) \o <<HexDigit(n % 16)>>

RECURSIVE HexTwos(_, _)
HexTwos(n, k) == IF k = 0 THEN <<>>
                 ELSE HexTwos(n \div 16, k - 1) \o <<HexDigit(n % 16)>>

Zeros(k) == [j \in 1..k |-> 48]

FormatHex(n, width) ==
    IF n < 0 THEN HexTwos(n, 16)
    ELSE LET d == HexDigits(n) IN Zeros(width - Len(d)) \o d

\* "OP", "OPERAND", "SYMREF", " ", " -> "
STR_OP == <<79, 80>>
STR_OPERAND == <<79, 80, 69, 82, 65, 78, 68>>
STR_SYMREF == <<83, 89, 77, 82, 69, 70>>
STR_SPACE == <<32>>
STR_ARROW == <<32, 45, 62, 32>>
\* '+', '-', '~'
CH_PLUS == <<43>>
CH_MINUS == <<45>>
CH_TILDE == <<126>>

IsPrefix(p, s) == Len(p) <= Len(s) /\ SubSeq(s, 1, Len(p)) = p

\* str::replace: every non-overlapping match, left to right (from is not empty)
RECURSIVE Replace(_, _, _)
Replace(s, from, to) ==
    IF s = <<>> THEN <<>>
    ELSE IF IsPrefix(from, s) THEN to \o Replace(Drop(s, Len(from)), from, to)
    ELSE <<Head(s)>> \o Replace(Tail(s), from, to)

-----------------------------------------------------------------------------
(* struct Instruction                                                      *)

NewInstruction(op_code, addr, operands) ==
    [op_code |-> op_code, address |-> addr, operands |-> operands]

ToString(ins) ==
    ins.op_code \o STR_SPACE \o FormatHex(ins.address, 8) \o STR_SPACE \o ins.operands

-----------------------------------------------------------------------------
(* streaming_disassemble                                                   *)

\* the for loop over buffer[..bytes_read].chunks(4), for one read of n bytes
RECURSIVE Chunks(_, _, _)
Chunks(insts, addr, n) ==
    IF n = 0 THEN [instructions |-> insts, address |-> addr]
    ELSE LET len == Min(n, CHUNK)
         IN Chunks(Append(insts,
                          NewInstruction(STR_OP \o FormatHex(addr, 2), addr,
                                         STR_OPERAND \o FormatHex(addr, 2))),
                   addr + len, n - len)

\* the whole loop, given the sizes of the successive reads
RECURSIVE DisassembleReads(_, _, _)
DisassembleReads(insts, addr, reads) ==
    IF reads = <<>> THEN insts
    ELSE LET c == Chunks(insts, addr, Head(reads))
         IN DisassembleReads(c.instructions, c.address, Tail(reads))

\* the reads File::read gives for a regular file of len bytes through a
\* BufReader and a BUFFER_SIZE buffer: full buffers, then the rest
RECURSIVE FullReads(_)
FullReads(len) ==
    IF len = 0 THEN <<>>
    ELSE <<Min(len, BUFFER_SIZE)>> \o FullReads(len - Min(len, BUFFER_SIZE))

StreamingDisassemble(file) == DisassembleReads(<<>>, 0, FullReads(Len(file)))

applyIdle ==
    /\ overflow_checks = FALSE /\ target = <<>> /\ before = <<>> /\ pc = Idle
    /\ diff = <<>> /\ address_changes = <<>> /\ idx = 0 /\ result = Idle
pipeIdle == applyIdle /\ old_file = <<>> /\ new_file = <<>> /\ patch = <<>>
chunkIdle ==
    /\ stream = <<>> /\ rpos = 0 /\ address = 0 /\ instructions = <<>> /\ dis = Idle
NoCall == [op |-> Idle, value |-> <<>>]
diffIdle == old_code = <<>> /\ new_code = <<>> /\ out = NoCall
NoContainer == [err |-> Idle]
codecIdle == container = NoContainer /\ parsed = NoContainer

\* a reader over any stream, about to be disassembled
InitChunk ==
    /\ stream \in SeqsUpTo(FileBytes, MaxStreamLen)
    /\ rpos = 0 /\ address = 0 /\ instructions = <<>> /\ dis = "reading"
    /\ pipeIdle /\ diffIdle /\ codecIdle

\* reader.read(&mut buffer) returns n > 0 bytes: any n the Read contract allows
DisassembleRead ==
    /\ dis = "reading"
    /\ \E n \in 1..Min(BUFFER_SIZE, Len(stream) - rpos) :
          LET c == Chunks(instructions, address, n)
          IN /\ instructions' = c.instructions
             /\ address' = c.address
             /\ rpos' = rpos + n
    /\ UNCHANGED <<stream, dis, pipeVars, diffVars, codecVars>>

\* reader.read returns 0: end of stream, Ok(instructions)
DisassembleEof ==
    /\ dis = "reading"
    /\ rpos = Len(stream)
    /\ dis' = "ok"
    /\ UNCHANGED <<stream, rpos, address, instructions, pipeVars, diffVars, codecVars>>

\* reader.read returns Err: `?` returns it and the vector is dropped
DisassembleErr ==
    /\ dis = "reading"
    /\ dis' = "err"
    /\ instructions' = <<>>
    /\ UNCHANGED <<stream, rpos, address, pipeVars, diffVars, codecVars>>

NextChunk == DisassembleRead \/ DisassembleEof \/ DisassembleErr

SpecChunk == InitChunk /\ [][NextChunk]_vars

CeilDiv(a, b) == (a + b - 1) \div b

\* C2: a finished streaming_disassemble holds ceil(L/4) units at offsets
\* 0, 4, 8, ..., however the reader split the L bytes into reads.
ChunkingCoverage ==
    dis = "ok" =>
        /\ Len(instructions) = CeilDiv(Len(stream), 4)
        /\ \A k \in 1..Len(instructions) : instructions[k].address = 4 * (k - 1)


-----------------------------------------------------------------------------
(* normalize, generate_diff, extract_address_changes                       *)

NormalizeOne(ins) ==
    NewInstruction(ins.op_code, 0,
                   Replace(ins.operands, FormatHex(ins.address, 8), STR_SYMREF))

normalize(assembly_code) ==
    [k \in 1..Len(assembly_code) |-> NormalizeOne(assembly_code[k])]

\* DiffAt with `i + 1 >= old_code.len()` for `i >= old_code.len()`
DiffAt_OffByOne(old, new, k) ==
    IF k >= Len(old) /\ k <= Len(new) THEN <<CH_PLUS \o ToString(new[k])>>
    ELSE IF k > Len(new) THEN <<CH_MINUS \o ToString(old[k])>>
    ELSE IF ToString(old[k]) # ToString(new[k])
         THEN <<CH_TILDE \o ToString(old[k]) \o STR_ARROW \o ToString(new[k])>>
    ELSE <<>>

\* DiffAt comparing the op_code fields for the rendered texts
DiffAt_OpCodeOnly(old, new, k) ==
    IF k > Len(old) THEN <<CH_PLUS \o ToString(new[k])>>
    ELSE IF k > Len(new) THEN <<CH_MINUS \o ToString(old[k])>>
    ELSE IF old[k].op_code # new[k].op_code
         THEN <<CH_TILDE \o ToString(old[k]) \o STR_ARROW \o ToString(new[k])>>
    ELSE <<>>

\* one turn of the loop, for the 1-based position k (i = k - 1 in the source)
DiffAt(old, new, k) ==
    IF k > Len(old) THEN <<CH_PLUS \o ToString(new[k])>>
    ELSE IF k > Len(new) THEN <<CH_MINUS \o ToString(old[k])>>
    ELSE IF ToString(old[k]) # ToString(new[k])
         THEN <<CH_TILDE \o ToString(old[k]) \o STR_ARROW \o ToString(new[k])>>
    ELSE <<>>

RECURSIVE DiffFrom(_, _, _)
DiffFrom(old, new, k) ==
    IF k > Max(Len(old), Len(new)) THEN <<>>
    ELSE DiffAt(old, new, k) \o DiffFrom(old, new, k + 1)

generate_diff(old, new) == DiffFrom(old, new, 1)

\* the difference of two addresses as an i64
I64(n) == [hi |-> IF n < 0 THEN -1 ELSE 0, lo |-> n]

\* extract_address_changes returning the new address for the difference
extract_address_changes_NewAddress(old, new) ==
    [k \in 1..Min(Len(old), Len(new)) |-> I64(new[k].address)]

extract_address_changes(old, new) ==
    [k \in 1..Min(Len(old), Len(new)) |-> I64(new[k].address - old[k].address)]

\* the units normalize and generate_diff are tried on: what the chunker makes
\* at offsets 0 and 4, the same with their offset or its placeholder as
\* operands, and normalized units
Hex2(n) == FormatHex(n, 2)
Units ==
    { NewInstruction(STR_OP \o Hex2(0), 0, STR_OPERAND \o Hex2(0)),
      NewInstruction(STR_OP \o Hex2(4), 4, STR_OPERAND \o Hex2(4)),
      NewInstruction(STR_OP \o Hex2(4), 4, FormatHex(4, 8)),
      NewInstruction(STR_OP \o Hex2(4), 4, FormatHex(0, 8)),
      NewInstruction(STR_OP \o Hex2(4), 0, STR_OPERAND \o Hex2(4)),
      NewInstruction(STR_OP \o Hex2(4), 0, STR_SYMREF) }

InitDiff ==
    /\ old_code \in SeqsUpTo(Units, MaxUnits)
    /\ new_code \in SeqsUpTo(Units, MaxUnits)
    /\ out = NoCall
    /\ pipeIdle /\ chunkIdle /\ codecIdle

Normalize ==
    /\ out' = [op |-> "normalize", value |-> normalize(old_code)]
    /\ UNCHANGED <<old_code, new_code, pipeVars, chunkVars, codecVars>>

GenerateDiff ==
    /\ out' = [op |-> "generate_diff", value |-> generate_diff(old_code, new_code)]
    /\ UNCHANGED <<old_code, new_code, pipeVars, chunkVars, codecVars>>

ExtractAddressChanges ==
    /\ out' = [op |-> "extract_address_changes",
               value |-> extract_address_changes(old_code, new_code)]
    /\ UNCHANGED <<old_code, new_code, pipeVars, chunkVars, codecVars>>

NextDiff == Normalize \/ GenerateDiff \/ ExtractAddressChanges

SpecDiff == InitDiff /\ [][NextDiff]_vars

Returned(op) == out.op = op

\* positions at which the differ contract asks for a record
Emitting(old, new) ==
    {k \in 1..Max(Len(old), Len(new)) :
        k > Len(old) \/ k > Len(new) \/ ToString(old[k]) # ToString(new[k])}

\* the record the differ contract asks for at an emitting position
Expected(old, new, k) ==
    IF k > Len(old) THEN CH_PLUS \o ToString(new[k])
    ELSE IF k > Len(new) THEN CH_MINUS \o ToString(old[k])
    ELSE CH_TILDE \o ToString(old[k]) \o STR_ARROW \o ToString(new[k])

\* C6: generate_diff returns one record per emitting position, in increasing
\* position order, Added past the end of old, else Removed past the end of new,
\* else Changed; and nothing when the two sequences are the same.
DifferContract ==
    Returned("generate_diff") =>
        LET E == Emitting(old_code, new_code)
        IN /\ Len(out.value) = Cardinality(E)
           /\ \A k \in E :
                 out.value[Cardinality({j \in E : j < k}) + 1]
                     = Expected(old_code, new_code, k)
           /\ (old_code = new_code => out.value = <<>>)

\* C6 witness: a diff holding an Added or Removed record after a Changed one
DifferWitness ==
    /\ Returned("generate_diff")
    /\ Len(out.value) = 2
    /\ Head(out.value[1]) = 126
    /\ Head(out.value[2]) \in {43, 45}

-----------------------------------------------------------------------------
(* byteorder: little-endian integers                                       *)

\* the four little-endian bytes of a 32-bit word (two's complement)
LE4(n) == <<n % 256, (n \div 256) % 256, (n \div 65536) % 256, (n \div 16777216) % 256>>

WriteU32(n) == LE4(n)
WriteI32(v) == LE4(v)
WriteI64(v) == LE4(v.lo) \o LE4(v.hi)

\* (the counts and lengths of the containers tried stay below 2^31)
ReadU32(b) == b[1] + 256 * b[2] + 65536 * b[3] + 16777216 * b[4]
ReadI32(b) ==
    b[1] + 256 * b[2] + 65536 * b[3]
         + 16777216 * (IF b[4] >= 128 THEN b[4] - 256 ELSE b[4])
\* ReadI64 with the two words taken in the other order
ReadI64_Swapped(b) ==
    [hi |-> ReadI32(SubSeq(b, 1, 4)), lo |-> ReadI32(SubSeq(b, 5, 8))]

ReadI64(b) == [hi |-> ReadI32(SubSeq(b, 5, 8)), lo |-> ReadI32(SubSeq(b, 1, 4))]

\* `change as i32` taking the high 32 bits
AsI32_High(v) == v.hi

\* `change as i32`: the low 32 bits
AsI32(v) == v.lo

\* i32 addition that wraps, and whether it overflows
AddOverflows(a, b) ==
    \/ a > 0 /\ b > 0 /\ a > I32_MAX - b
    \/ a < 0 /\ b < 0 /\ a < I32_MIN - b
WrappingAdd(a, b) ==
    IF a > 0 /\ b > 0 /\ a > I32_MAX - b THEN (a + I32_MIN) + (b + I32_MIN)
    ELSE IF a < 0 /\ b < 0 /\ a < I32_MIN - b THEN (a - I32_MIN) + (b - I32_MIN)
    ELSE a + b

-----------------------------------------------------------------------------
(* String::from_utf8: is the byte string well-formed UTF-8                 *)

RECURSIVE IsUtf8(_)
IsUtf8(b) ==
    IF b = <<>> THEN TRUE
    ELSE LET c == b[1]
             n == Len(b)
             Cont(k) == k <= n /\ b[k] \in 128..191
             In(k, lo, hi) == k <= n /\ b[k] \in lo..hi
         IN IF c < 128 THEN IsUtf8(Tail(b))
            ELSE IF c \in 194..223 THEN Cont(2) /\ IsUtf8(Drop(b, 2))
            ELSE IF c = 224 THEN In(2, 160, 191) /\ Cont(3) /\ IsUtf8(Drop(b, 3))
            ELSE IF c \in (225..236) \cup (238..239)
                 THEN Cont(2) /\ Cont(3) /\ IsUtf8(Drop(b, 3))
            ELSE IF c = 237 THEN In(2, 128, 159) /\ Cont(3) /\ IsUtf8(Drop(b, 3))
            ELSE IF c = 240
                 THEN In(2, 144, 191) /\ Cont(3) /\ Cont(4) /\ IsUtf8(Drop(b, 4))
            ELSE IF c \in 241..243
                 THEN Cont(2) /\ Cont(3) /\ Cont(4) /\ IsUtf8(Drop(b, 4))
            ELSE IF c = 244
                 THEN In(2, 128, 143) /\ Cont(3) /\ Cont(4) /\ IsUtf8(Drop(b, 4))
            ELSE FALSE

-----------------------------------------------------------------------------
(* calculate_file_hash.  SHA-256 is taken to be free of collisions: the    *)
(* digest of a message shorter than 32 bytes is modelled by the message,   *)
(* closed by 0x80 and zero-padded to 32 bytes, which is one to one.  The   *)
(* hasher is fed every block that is read, so the digest is that of the    *)
(* whole file whatever the sizes of the reads.                             *)

Sha256(msg) == msg \o <<128>> \o [j \in 1..(DIGEST_LEN - 1 - Len(msg)) |-> 0]

calculate_file_hash(file) == Sha256(file)

-----------------------------------------------------------------------------
(* The container: create_streaming_diff's writes, apply_streaming_patch's  *)
(* reads.                                                                  *)

RECURSIVE WriteRecords(_)
WriteRecords(ds) ==
    IF ds = <<>> THEN <<>>
    ELSE WriteU32(Len(Head(ds))) \o Head(ds) \o WriteRecords(Tail(ds))

RECURSIVE WriteChanges(_)
WriteChanges(cs) ==
    IF cs = <<>> THEN <<>>
    ELSE WriteI64(Head(cs)) \o WriteChanges(Tail(cs))

Serialize(digest, ds, cs) ==
    digest \o WriteU32(Len(ds)) \o WriteRecords(ds)
           \o WriteU32(Len(cs)) \o WriteChanges(cs)

\* read_exact / read_u32 / read_i64 of n bytes at pos: is the data there
Has(bytes, pos, n) == pos + n <= Len(bytes)
At(bytes, pos, n) == SubSeq(bytes, pos + 1, pos + n)

Failed(kind) == [err |-> kind, pos |-> 0, value |-> <<>>]
Read(pos, value) == [err |-> "", pos |-> pos, value |-> value]

\* ReadRecords keeping the bytes of a record without String::from_utf8
RECURSIVE ReadRecords_Unchecked(_, _, _, _)
ReadRecords_Unchecked(bytes, pos, left, acc) ==
    IF left = 0 THEN Read(pos, acc)
    ELSE IF ~Has(bytes, pos, 4) THEN Failed("UnexpectedEof")
    ELSE LET diff_len == ReadU32(At(bytes, pos, 4))
         IN IF ~Has(bytes, pos + 4, diff_len) THEN Failed("UnexpectedEof")
            ELSE ReadRecords_Unchecked(bytes, pos + 4 + diff_len, left - 1,
                                       Append(acc, At(bytes, pos + 4, diff_len)))

\* the body of `for _ in 0..diff_count`, left times more
RECURSIVE ReadRecords(_, _, _, _)
ReadRecords(bytes, pos, left, acc) ==
    IF left = 0 THEN Read(pos, acc)
    ELSE IF ~Has(bytes, pos, 4) THEN Failed("UnexpectedEof")
    ELSE LET diff_len == ReadU32(At(bytes, pos, 4))
         IN IF ~Has(bytes, pos + 4, diff_len) THEN Failed("UnexpectedEof")
            ELSE LET diff_bytes == At(bytes, pos + 4, diff_len)
                 IN IF ~IsUtf8(diff_bytes) THEN Failed("InvalidData")
                    ELSE ReadRecords(bytes, pos + 4 + diff_len, left - 1,
                                     Append(acc, diff_bytes))

\* the body of `for _ in 0..change_count`, left times more
RECURSIVE ReadChanges(_, _, _, _)
ReadChanges(bytes, pos, left, acc) ==
    IF left = 0 THEN Read(pos, acc)
    ELSE IF ~Has(bytes, pos, 8) THEN Failed("UnexpectedEof")
    ELSE ReadChanges(bytes, pos + 8, left - 1, Append(acc, ReadI64(At(bytes, pos, 8))))

\* "Read diff"
ReadDiff(bytes, pos) ==
    IF ~Has(bytes, pos, 4) THEN Failed("UnexpectedEof")
    ELSE ReadRecords(bytes, pos + 4, ReadU32(At(bytes, pos, 4)), <<>>)

\* "Read address changes"
ReadAddressChanges(bytes, pos) ==
    IF ~Has(bytes, pos, 4) THEN Failed("UnexpectedEof")
    ELSE ReadChanges(bytes, pos + 4, ReadU32(At(bytes, pos, 4)), <<>>)

\* patch_file.read_exact(&mut file_hash)
ReadFileHash(bytes) ==
    IF ~Has(bytes, 0, DIGEST_LEN) THEN Failed("UnexpectedEof")
    ELSE Read(DIGEST_LEN, At(bytes, 0, DIGEST_LEN))

\* everything apply_streaming_patch reads from the container, in its order
ParseContainer(bytes) ==
    LET h == ReadFileHash(bytes)
    IN IF h.err # "" THEN [err |-> h.err]
       ELSE LET d == ReadDiff(bytes, h.pos)
            IN IF d.err # "" THEN [err |-> d.err]
               ELSE LET c == ReadAddressChanges(bytes, d.pos)
                    IN IF c.err # "" THEN [err |-> c.err]
                       ELSE [err |-> "", digest |-> h.value,
                             change_records |-> d.value, offset_deltas |-> c.value]

-----------------------------------------------------------------------------
(* create_streaming_diff: the bytes it writes to output_path               *)

create_streaming_diff(old, new) ==
    LET original_file_hash == calculate_file_hash(old)
        old_disassembled == StreamingDisassemble(old)
        new_disassembled == StreamingDisassemble(new)
        old_normalized == normalize(old_disassembled)
        new_normalized == normalize(new_disassembled)
    IN Serialize(original_file_hash,
                 generate_diff(old_normalized, new_normalized),
                 extract_address_changes(old_disassembled, new_disassembled))


-----------------------------------------------------------------------------
(* apply_streaming_patch                                                   *)

Ok == "Ok"
ErrHashMismatch == "Err(InvalidData: File hash mismatch)"
ErrFromUtf8 == "Err(InvalidData: FromUtf8Error)"
ErrUnexpectedEof == "Err(UnexpectedEof)"
Panicked == "panic: attempt to add with overflow"

ErrOf(kind) == IF kind = "InvalidData" THEN ErrFromUtf8 ELSE ErrUnexpectedEof

\* the file with the bytes at pos .. pos + Len(bytes) - 1 overwritten
WriteAt(file, pos, bytes) ==
    [k \in 1..Len(file) |->
        IF k > pos /\ k <= pos + Len(bytes) THEN bytes[k - pos] ELSE file[k]]

Return(r) ==
    /\ result' = r
    /\ pc' = "returned"

\* ApplyVerify going on to the parse when the digests differ
ApplyVerify_NoGate ==
    /\ pc = "apply"
    /\ LET file_hash == ReadFileHash(patch)
       IN IF file_hash.err # "" THEN Return(ErrOf(file_hash.err))
          ELSE pc' = "parse" /\ result' = result
    /\ UNCHANGED <<overflow_checks, old_file, new_file, patch, target, before,
                   diff, address_changes, idx, chunkVars, diffVars, codecVars>>

\* "Read and verify file hash"
ApplyVerify ==
    /\ pc = "apply"
    /\ LET file_hash == ReadFileHash(patch)
       IN IF file_hash.err # "" THEN Return(ErrOf(file_hash.err))
          ELSE IF file_hash.value # calculate_file_hash(target)
               THEN Return(ErrHashMismatch)
          ELSE pc' = "parse" /\ result' = result
    /\ UNCHANGED <<overflow_checks, old_file, new_file, patch, target, before,
                   diff, address_changes, idx, chunkVars, diffVars, codecVars>>

\* "Read diff", "Read address changes"
ApplyParse ==
    /\ pc = "parse"
    /\ LET d == ReadDiff(patch, DIGEST_LEN)
       IN IF d.err # ""
          THEN Return(ErrOf(d.err)) /\ UNCHANGED <<diff, address_changes>>
          ELSE LET c == ReadAddressChanges(patch, d.pos)
               IN IF c.err # ""
                  THEN Return(ErrOf(c.err)) /\ UNCHANGED <<diff, address_changes>>
                  ELSE /\ diff' = d.value
                       /\ address_changes' = c.value
                       /\ pc' = "patch"
                       /\ result' = result
    /\ UNCHANGED <<overflow_checks, old_file, new_file, patch, target, before,
                   idx, chunkVars, diffVars, codecVars>>

\* "Apply patch": one turn of the loop over address_changes
ApplyField ==
    /\ pc = "patch"
    /\ idx < Len(address_changes)
    /\ IF ~Has(target, idx * 4, 4)
       THEN Return(ErrUnexpectedEof) /\ UNCHANGED <<target, idx>>
       ELSE LET value == ReadI32(At(target, idx * 4, 4))
                change == AsI32(address_changes[idx + 1])
            IN IF overflow_checks /\ AddOverflows(value, change)
               THEN Return(Panicked) /\ UNCHANGED <<target, idx>>
               ELSE /\ target' = WriteAt(target, idx * 4,
                                         WriteI32(WrappingAdd(value, change)))
                    /\ idx' = idx + 1
                    /\ UNCHANGED <<pc, result>>
    /\ UNCHANGED <<overflow_checks, old_file, new_file, patch, before, diff,
                   address_changes, chunkVars, diffVars, codecVars>>

\* the loop is over: Ok(())
ApplyOk ==
    /\ pc = "patch"
    /\ idx = Len(address_changes)
    /\ Return(Ok)
    /\ UNCHANGED <<overflow_checks, old_file, new_file, patch, target, before,
                   diff, address_changes, idx, chunkVars, diffVars, codecVars>>

-----------------------------------------------------------------------------
(* The program: create a container from two files, then apply it to a copy *)
(* of the old file or, by mistake, to the new one.                         *)

Files == SeqsUpTo(FileBytes, MaxFileLen)

Init ==
    /\ overflow_checks \in BOOLEAN
    /\ old_file \in Files
    /\ new_file \in Files
    /\ patch = <<>>
    /\ target \in {old_file, new_file}
    /\ before = target
    /\ pc = "create"
    /\ diff = <<>> /\ address_changes = <<>> /\ idx = 0 /\ result = Idle
    /\ chunkIdle /\ diffIdle /\ codecIdle

CreateStreamingDiff ==
    /\ pc = "create"
    /\ patch' = create_streaming_diff(old_file, new_file)
    /\ pc' = "apply"
    /\ UNCHANGED <<overflow_checks, old_file, new_file, target, before, diff,
                   address_changes, idx, result, chunkVars, diffVars, codecVars>>

Next == CreateStreamingDiff \/ ApplyVerify \/ ApplyParse \/ ApplyField \/ ApplyOk

Spec == Init /\ [][Next]_vars


-----------------------------------------------------------------------------
(* Properties of the program.                                              *)

Created == pc # "create"
Written == ParseContainer(patch)

\* the bytes of unit i (from 0) of a file
UnitBytes(file, i) == SubSeq(file, 4 * i + 1, Min(4 * i + 4, Len(file)))
UnitCount(file) == CeilDiv(Len(file), 4)

AllZero(deltas) == \A k \in 1..Len(deltas) : deltas[k] = [hi |-> 0, lo |-> 0]

\* a '~' record of the unit at index i
MarksChanged(record, i) == IsPrefix(CH_TILDE \o STR_OP \o FormatHex(4 * i, 2), record)

\* C3 as claimed: for two files of equal length the container holds offset
\* deltas that are all 0 and a '~' record for every unit whose bytes differ.
EndToEndChanged ==
    (Created /\ Len(old_file) = Len(new_file)) =>
        /\ Written.err = ""
        /\ AllZero(Written.offset_deltas)
        /\ \A i \in 0..(UnitCount(old_file) - 1) :
              UnitBytes(old_file, i) # UnitBytes(new_file, i) =>
                  \E k \in 1..Len(Written.change_records) :
                      MarksChanged(Written.change_records[k], i)

\* C3 as amended: for two files of equal length the container holds one offset
\* delta per unit, all 0, and no change record, whether the bytes differ or not.
EndToEndNoRecord ==
    (Created /\ Len(old_file) = Len(new_file)) =>
        /\ Written.err = ""
        /\ Len(Written.offset_deltas) = UnitCount(old_file)
        /\ AllZero(Written.offset_deltas)
        /\ Written.change_records = <<>>

\* C3 witness: a container made from two files of the same length, of two
\* units, that differ in the second unit only
EndToEndWitness ==
    /\ Created
    /\ Len(old_file) = Len(new_file)
    /\ UnitCount(old_file) = 2
    /\ UnitBytes(old_file, 0) = UnitBytes(new_file, 0)
    /\ UnitBytes(old_file, 1) # UnitBytes(new_file, 1)

Abs(n) == IF n < 0 THEN -n ELSE n

\* C10: a created container holds the digest of old, min(units) offset deltas
\* that are all 0, no '~' record and |units(new) - units(old)| records, all '+'
\* or all '-'; but for the digest it is the container of any two files of the
\* same lengths; and a successful apply of it leaves the target as it was.
CreatedContainerShape ==
    Created =>
        LET uo == UnitCount(old_file)
            un == UnitCount(new_file)
            rs == Written.change_records
        IN /\ Written.err = ""
           /\ Written.digest = Sha256(old_file)
           /\ Len(Written.offset_deltas) = Min(uo, un)
           /\ AllZero(Written.offset_deltas)
           /\ Len(rs) = Abs(un - uo)
           /\ \A k \in 1..Len(rs) : Head(rs[k]) = (IF un > uo THEN 43 ELSE 45)
           /\ Drop(patch, DIGEST_LEN)
                 = Drop(create_streaming_diff([k \in 1..Len(old_file) |-> 0],
                                              [k \in 1..Len(new_file) |-> 0]),
                        DIGEST_LEN)
           /\ (result = Ok => target = before)

\* C10 witness: a successful apply of a created container that holds a record
\* and an offset delta, made from files that take more than one read
CreatedContainerWitness ==
    /\ result = Ok
    /\ Len(diff) >= 1
    /\ Len(address_changes) >= 1
    /\ Len(old_file) > BUFFER_SIZE
    /\ old_file # [k \in 1..Len(old_file) |-> 0]


-----------------------------------------------------------------------------
(* apply_streaming_patch on a container that did not come from             *)
(* create_streaming_diff: a whole, well-formed container with the digest   *)
(* of the target, any records and deltas; or a container with the digest   *)
(* of the target or of another file, records that may not be UTF-8, cut    *)
(* short anywhere or whole.                                                *)

\* "+A" and "e" with an acute accent (two bytes)
ValidTexts == {<<43, 65>>, <<195, 169>>}
\* a two-byte sequence without its second byte; a byte no UTF-8 text holds
InvalidTexts == {<<43, 195>>, <<255>>}
\* 1, -1 and 2^32 + 2^31, whose low 32 bits are those of i32::MIN
DeltaVals == {I64(1), I64(-1), [hi |-> 1, lo |-> I32_MIN]}

Bytes(c) == Serialize(c.digest, c.change_records, c.offset_deltas)

\* the digest of the target, or that of another file
Digests(file) == {Sha256(file), Sha256(Append(file, 0))}

InitApplyWhole ==
    /\ target \in SeqsUpTo(TargetBytes, MaxTargetLen)
    /\ container \in [digest : {Sha256(target)},
                      change_records : SeqsUpTo({<<43, 65>>}, MaxRecords),
                      offset_deltas : SeqsUpTo(DeltaVals, MaxDeltas)]
    /\ patch = Bytes(container)

InitApplyMalformed ==
    /\ target \in SeqsUpTo({255}, MaxTargetLen)
    /\ container \in [digest : Digests(target),
                      change_records : SeqsUpTo({<<43, 65>>} \cup InvalidTexts, MaxRecords),
                      offset_deltas : SeqsUpTo({I64(1)}, MaxDeltas)]
    /\ \E cut \in 0..Len(Bytes(container)) : patch = Take(Bytes(container), cut)

InitApply ==
    /\ overflow_checks \in BOOLEAN
    /\ (InitApplyWhole \/ InitApplyMalformed)
    /\ before = target
    /\ pc = "apply"
    /\ diff = <<>> /\ address_changes = <<>> /\ idx = 0 /\ result = Idle
    /\ old_file = <<>> /\ new_file = <<>>
    /\ parsed = NoContainer
    /\ chunkIdle /\ diffIdle

NextApply == ApplyVerify \/ ApplyParse \/ ApplyField \/ ApplyOk

SpecApply == InitApply /\ [][NextApply]_vars

Returns == pc = "returned"
DigestRead == Has(patch, 0, DIGEST_LEN)
DigestMatches == DigestRead /\ At(patch, 0, DIGEST_LEN) = Sha256(before)
DigestDiffers == DigestRead /\ At(patch, 0, DIGEST_LEN) # Sha256(before)
CutShort == patch # Bytes(container)
BadText == \E k \in 1..Len(container.change_records) :
               container.change_records[k] \in InvalidTexts

\* C1: when the target's digest differs from the container's, whatever else
\* the container holds, the target is never written and the call returns the
\* hash mismatch error.
VerificationGate ==
    DigestDiffers =>
        /\ target = before
        /\ pc \in {"apply", "returned"}
        /\ (Returns => result = ErrHashMismatch)

\* C1 witness: the mismatch error on a container whose deltas fit the target
VerificationGateWitness ==
    /\ Returns /\ DigestDiffers /\ ~CutShort
    /\ result = ErrHashMismatch
    /\ Len(container.offset_deltas) >= 1
    /\ Len(target) >= 4

\* byte-wise two's complement addition, the carry out of the last byte dropped
RECURSIVE RippleAdd(_, _, _)
RippleAdd(a, b, carry) ==
    IF a = <<>> THEN <<>>
    ELSE <<(a[1] + b[1] + carry) % 256>>
             \o RippleAdd(Tail(a), Tail(b), (a[1] + b[1] + carry) \div 256)

\* field i (from 0) of the target is its old value plus the low 32 bits of d
FieldPatched(i, d) ==
    At(target, 4 * i, 4) = RippleAdd(At(before, 4 * i, 4), LE4(d.lo), 0)

MalformedRejected ==
    (DigestMatches /\ (CutShort \/ BadText)) =>
        /\ target = before
        /\ pc \in {"apply", "parse", "returned"}
        /\ (Returns => result \in {ErrFromUtf8, ErrUnexpectedEof})
        /\ (Returns /\ ~CutShort => result = ErrFromUtf8)

\* C8 witness: InvalidData for a whole container whose delta fits the target
MalformedRejectedWitness ==
    /\ Returns /\ DigestMatches /\ BadText /\ ~CutShort
    /\ result = ErrFromUtf8
    /\ Len(container.offset_deltas) >= 1
    /\ Len(target) >= 4

\* C9: with a matching digest and a whole, well-formed container of M deltas,
\* the call on L bytes returns Ok exactly when 4M <= L; otherwise it returns
\* UnexpectedEof with the fields 0 .. L/4 - 1 rewritten and the rest as before.
ApplyOutcome ==
    (Returns /\ DigestMatches /\ ~CutShort /\ ~BadText) =>
        LET d == container.offset_deltas
            L == Len(before)
        IN /\ (result = Ok <=> 4 * Len(d) <= L)
           /\ (4 * Len(d) > L =>
                 /\ result = ErrUnexpectedEof
                 /\ Len(target) = L
                 /\ \A i \in 0..((L \div 4) - 1) : FieldPatched(i, d[i + 1])
                 /\ \A k \in (4 * (L \div 4) + 1)..L : target[k] = before[k])

\* The same outcome, for a build whose i32 additions wrap (overflow checks off).
ApplyOutcomeWrapping == overflow_checks \/ ApplyOutcome

-----------------------------------------------------------------------------
(* The codec alone: a container value is written, then read back.          *)

InitCodec ==
    /\ container \in [digest : {Sha256(f) : f \in SeqsUpTo(FileBytes, 1)},
                      change_records : SeqsUpTo(ValidTexts, MaxRecords),
                      offset_deltas : SeqsUpTo(DeltaVals, MaxDeltas)]
    /\ patch = <<>>
    /\ parsed = NoContainer
    /\ applyIdle /\ old_file = <<>> /\ new_file = <<>>
    /\ chunkIdle /\ diffIdle

\* the writes of create_streaming_diff
CodecWrite ==
    /\ patch = <<>>
    /\ patch' = Bytes(container)
    /\ UNCHANGED <<overflow_checks, old_file, new_file, target, before, pc, diff,
                   address_changes, idx, result, container, parsed,
                   chunkVars, diffVars>>

\* the reads of apply_streaming_patch
CodecRead ==
    /\ patch # <<>>
    /\ parsed' = ParseContainer(patch)
    /\ UNCHANGED <<pipeVars, container, chunkVars, diffVars>>

NextCodec == CodecWrite \/ CodecRead

SpecCodec == InitCodec /\ [][NextCodec]_vars

\* where the delta count sits in the bytes of a container
RECURSIVE RecordsSize(_)
RecordsSize(ds) == IF ds = <<>> THEN 0 ELSE 4 + Len(Head(ds)) + RecordsSize(Tail(ds))
DeltasAt(c) == DIGEST_LEN + 4 + RecordsSize(c.change_records)

=============================================================================
